---- MODULE Spec2Model ----
(***************************************************************************)
(* hackerargs: the write-once argument store WriteOnceDict of              *)
(* src/hackerargs/args.py, its YAML scalar typing                          *)
(* (src/hackerargs/strict_bool_yaml.py) and the parse_args merge of a      *)
(* YAML file, an argparse parser and unknown command-line arguments.       *)
(*                                                                         *)
(* Python values are records [t |-> type name, v |-> repr text]; a dict is *)
(* a function from its keys; a command-line token is a record that keeps   *)
(* the parts the code looks at (the leading dashes, the name, an "=value"  *)
(* suffix).  sys.argv is modelled without argv[0], the script name.        *)
(***************************************************************************)
EXTENDS Integers, Sequences, FiniteSets, TLC

(***************************************************************************)
(* Python values                                                           *)
(***************************************************************************)
PyNone == [t |-> "NoneType", v |-> "None"]
PyStr(s) == [t |-> "str", v |-> s]
PyInt(s) == [t |-> "int", v |-> s]
PyFloat(s) == [t |-> "float", v |-> s]
PyBool(s) == [t |-> "bool", v |-> s]
\* containers: a list and a tuple of values, a dict from strings to values
PyList(items) == [t |-> "list", v |-> items]
PyTuple(items) == [t |-> "tuple", v |-> items]
PyDict(items) == [t |-> "dict", v |-> items]

EmptyDict == [k \in {} |-> PyNone]

\* d[k] = v on a builtin dict
DictSet(d, k, v) == [x \in (DOMAIN d) \cup {k} |-> IF x = k THEN v ELSE d[x]]

(***************************************************************************)
(* YAML scalar resolution (PyYAML implicit resolvers, keyed by the first   *)
(* character of the scalar) and the strict-bool variant of them            *)
(***************************************************************************)
\* texts matched by the YAML 1.1 regular expressions of PyYAML's Resolver
BoolTrueTexts == {"yes", "Yes", "YES", "true", "True", "TRUE", "on", "On", "ON"}
BoolFalseTexts == {"no", "No", "NO", "false", "False", "FALSE", "off", "Off", "OFF"}
NullTexts == {"~", "null", "Null", "NULL", ""}
IntTexts == {"1", "2", "9", "42"}
FloatTexts == {"3.14"}

TagTexts(tag) ==
    CASE tag = "bool" -> BoolTrueTexts \cup BoolFalseTexts
      [] tag = "float" -> FloatTexts
      [] tag = "int" -> IntTexts
      [] tag = "null" -> NullTexts
      [] OTHER -> {}

\* value[0] of a scalar text ("" for the empty scalar, "x" for a character
\* that no implicit resolver is registered for)
FirstChar(s) ==
    CASE s \in {"yes", "yEs", "yaml"} -> "y"
      [] s \in {"Yes", "YES"} -> "Y"
      [] s \in {"no", "nO", "null"} -> "n"
      [] s \in {"No", "NO", "Null", "NULL", "None"} -> "N"
      [] s \in {"true"} -> "t"
      [] s \in {"True", "TRUE"} -> "T"
      [] s \in {"false", "f1.yaml", "f2.yaml"} -> "f"
      [] s \in {"False", "FALSE"} -> "F"
      [] s \in {"on", "oN", "off", "oFf", "out.yaml"} -> "o"
      [] s \in {"On", "ON", "Off", "OFF"} -> "O"
      [] s \in {"~"} -> "~"
      [] s \in {""} -> ""
      [] s \in {"1"} -> "1"
      [] s \in {"2"} -> "2"
      [] s \in {"3.14"} -> "3"
      [] s \in {"42"} -> "4"
      [] s \in {"9"} -> "9"
      [] OTHER -> "x"

ResolverChars ==
    {"y", "Y", "n", "N", "t", "T", "f", "F", "o", "O", "~", "",
     "1", "2", "3", "4", "9", "x"}

\* Resolver.yaml_implicit_resolvers as PyYAML registers it, before
\* strict_bool_yaml is imported: first character -> tags, in order
RegisteredResolvers ==
    [c \in ResolverChars |->
        CASE c \in {"y", "Y", "t", "T", "f", "F", "o", "O"} -> <<"bool">>
          [] c \in {"n", "N"} -> <<"bool", "null">>
          [] c \in {"~", ""} -> <<"null">>
          [] c \in {"1", "2", "3", "4", "9"} -> <<"float", "int">>
          [] OTHER -> <<>>]

RECURSIVE DropTag(_, _)
DropTag(tags, tag) ==
    IF tags = <<>> THEN <<>>
    ELSE IF Head(tags) = tag THEN DropTag(Tail(tags), tag)
    ELSE <<Head(tags)>> \o DropTag(Tail(tags), tag)

\* the table after the loop "for ch in 'OoYyNn'": a single entry is deleted,
\* otherwise the bool entries are filtered out
StrictBoolSafeResolver ==
    [c \in ResolverChars |->
        IF c \in {"O", "o", "Y", "y", "N", "n"}
        THEN (IF Len(RegisteredResolvers[c]) = 1 THEN <<>>
              ELSE DropTag(RegisteredResolvers[c], "bool"))
        ELSE RegisteredResolvers[c]]

\* yaml.resolver.Resolver once strict_bool_yaml is imported: the subclass
\* inherits the class attribute, so the loop has changed the one dict that
\* Resolver, and with it every default Loader and Dumper, reads
Resolver == StrictBoolSafeResolver

RECURSIVE FirstMatch(_, _)
FirstMatch(tags, s) ==
    IF tags = <<>> THEN "str"
    ELSE IF s \in TagTexts(Head(tags)) THEN Head(tags)
    ELSE FirstMatch(Tail(tags), s)

\* Resolver.resolve for a plain scalar
resolve(resolvers, s) == FirstMatch(resolvers[FirstChar(s)], s)

\* SafeConstructor: tag and text to a Python value
construct(tag, s) ==
    CASE tag = "bool" -> PyBool(IF s \in BoolTrueTexts THEN "True" ELSE "False")
      [] tag = "int" -> PyInt(s)
      [] tag = "float" -> PyFloat(s)
      [] tag = "null" -> PyNone
      [] OTHER -> PyStr(s)

\* yaml_load of a string holding one plain scalar
yaml_load(s) == construct(resolve(StrictBoolSafeResolver, s), s)

\* a scalar node of a YAML document
Plain(s) == [style |-> "plain", text |-> s]
Quoted(s) == [style |-> "quoted", text |-> s]
\* collection nodes: a sequence, a mapping, and a sequence tagged
\* !!python/tuple
SeqNode(items) == [style |-> "seq", items |-> items]
MapNode(items) == [style |-> "map", items |-> items]
TupleNode(items) == [style |-> "python/tuple", items |-> items]

\* SafeConstructor has a constructor for every node of the tree: it has
\* none for the python tags
RECURSIVE Constructible(_)
Constructible(node) ==
    CASE node.style \in {"plain", "quoted"} -> TRUE
      [] node.style \in {"seq", "map"} ->
            \A i \in DOMAIN node.items : Constructible(node.items[i])
      [] OTHER -> FALSE

\* the value StrictBoolSafeLoader constructs from a node
RECURSIVE yaml_load_node(_)
yaml_load_node(node) ==
    CASE node.style = "quoted" -> PyStr(node.text)
      [] node.style = "plain" -> yaml_load(node.text)
      [] node.style = "seq" ->
            PyList([i \in DOMAIN node.items |-> yaml_load_node(node.items[i])])
      [] node.style = "map" ->
            PyDict([k \in DOMAIN node.items |-> yaml_load_node(node.items[k])])

\* yaml_load of a document raises ConstructorError
ConstructorError(doc) == \E k \in DOMAIN doc : ~Constructible(doc[k])

\* yaml_load of an open file whose document is a mapping, when every node
\* has a constructor
yaml_load_file(doc) == [k \in DOMAIN doc |-> yaml_load_node(doc[k])]

\* yaml.dump of one value by a Dumper that reads the given resolver table:
\* it quotes a string that the table would not read back as a string
RECURSIVE represent_with(_, _)
represent_with(resolvers, val) ==
    CASE val.t = "str" ->
            IF resolve(resolvers, val.v) = "str" THEN Plain(val.v)
            ELSE Quoted(val.v)
      [] val.t = "bool" -> Plain(IF val.v = "True" THEN "true" ELSE "false")
      [] val.t = "NoneType" -> Plain("null")
      [] val.t = "list" ->
            SeqNode([i \in DOMAIN val.v |-> represent_with(resolvers, val.v[i])])
      [] val.t = "tuple" ->
            TupleNode([i \in DOMAIN val.v |-> represent_with(resolvers, val.v[i])])
      [] val.t = "dict" ->
            MapNode([k \in DOMAIN val.v |-> represent_with(resolvers, val.v[k])])
      [] OTHER -> Plain(val.v)

\* a dump that writes every scalar plain
RECURSIVE represent_plain(_)
represent_plain(val) ==
    CASE val.t = "bool" -> Plain(IF val.v = "True" THEN "true" ELSE "false")
      [] val.t = "NoneType" -> Plain("null")
      [] val.t = "list" -> SeqNode([i \in DOMAIN val.v |-> represent_plain(val.v[i])])
      [] val.t = "tuple" -> TupleNode([i \in DOMAIN val.v |-> represent_plain(val.v[i])])
      [] val.t = "dict" -> MapNode([k \in DOMAIN val.v |-> represent_plain(val.v[k])])
      [] OTHER -> Plain(val.v)

\* yaml.dump of one value in a process that has imported hackerargs: the
\* Dumper reads the table the import has changed, so yes/no/on/off are
\* written plain
represent(val) == represent_with(Resolver, val)

yaml_dump(d) == [k \in DOMAIN d |-> represent(d[k])]

(***************************************************************************)
(* Command-line tokens and the argparse parser handed to parse_args        *)
(***************************************************************************)
\* "--name", "--name=arg", "-name" and a plain word
Long(k) == [dash |-> 2, name |-> k, eq |-> FALSE, arg |-> ""]
LongEq(k, v) == [dash |-> 2, name |-> k, eq |-> TRUE, arg |-> v]
Short(k) == [dash |-> 1, name |-> k, eq |-> FALSE, arg |-> ""]
Word(s) == [dash |-> 0, name |-> s, eq |-> FALSE, arg |-> ""]

\* the token as the Python string it stands for
TokStr(tok) ==
    (CASE tok.dash = 2 -> "--" [] tok.dash = 1 -> "-" [] OTHER -> "")
    \o tok.name \o (IF tok.eq THEN "=" \o tok.arg ELSE "")

\* key[:2] != '--' and key[2:] of __update_with_unknown_cli_args
StartsWithDashDash(tok) == tok.dash = 2
TrimmedKey(tok) == tok.name \o (IF tok.eq THEN "=" \o tok.arg ELSE "")

\* x in sys.argv, and sys.argv.index(x), for a token x
InArgv(argv, tok) == \E i \in 1..Len(argv) : argv[i] = tok
IndexOf(argv, tok) == CHOOSE i \in 1..Len(argv) :
    argv[i] = tok /\ \A j \in 1..(i - 1) : argv[j] # tok

\* an ArgumentParser whose actions are plain "store" actions with one
\* argument: optional flags "--k" (opts: k -> default) and positionals
MkParser(opts, pos) == [opts |-> opts, pos |-> pos]
\* argparse.ArgumentParser(allow_abbrev = False), no arguments added
EmptyParser == MkParser(EmptyDict, <<>>)

\* a token that argparse reads as an option string (it starts with "-")
IsOptionLike(tok) == tok.dash > 0

\* ArgumentParser.parse_known_args(): scan left to right from index i.
\* A declared "--k" takes the next token as its argument and exits the
\* process (SystemExit) when there is none or it looks like an option;
\* a declared "--k=v" takes v; any other option-like token goes to the
\* extras; a word fills the next open positional, or goes to the extras.
\* A positional left unfilled at the end exits the process.
RECURSIVE consume_args(_, _, _, _, _, _)
consume_args(parser, argv, i, posleft, ns, extras) ==
    IF i > Len(argv)
    THEN (IF posleft # <<>>
          THEN [err |-> "SystemExit", ns |-> ns, unknown |-> extras]
          ELSE [err |-> "", ns |-> ns, unknown |-> extras])
    ELSE LET tok == argv[i] IN
         IF tok.dash = 2 /\ tok.name \in DOMAIN parser.opts
         THEN (IF tok.eq
               THEN consume_args(parser, argv, i + 1, posleft,
                                 DictSet(ns, tok.name, PyStr(tok.arg)), extras)
               ELSE IF i + 1 <= Len(argv) /\ ~IsOptionLike(argv[i + 1])
               THEN consume_args(parser, argv, i + 2, posleft,
                                 DictSet(ns, tok.name, PyStr(TokStr(argv[i + 1]))),
                                 extras)
               ELSE [err |-> "SystemExit", ns |-> ns, unknown |-> extras])
         ELSE IF IsOptionLike(tok)
         THEN consume_args(parser, argv, i + 1, posleft, ns, Append(extras, tok))
         ELSE IF posleft # <<>>
         THEN consume_args(parser, argv, i + 1, Tail(posleft),
                           DictSet(ns, Head(posleft), PyStr(TokStr(tok))), extras)
         ELSE consume_args(parser, argv, i + 1, posleft, ns, Append(extras, tok))

parse_known_args(parser, argv) ==
    consume_args(parser, argv, 1, parser.pos, parser.opts, <<>>)

(***************************************************************************)
(* WriteOnceDict.parse_args and its private helpers, as functions of the   *)
(* store content; each returns the content it leaves behind and the error  *)
(* it raised ("" for none)                                                 *)
(***************************************************************************)
\* the file names that end with .yaml or .yml
YamlNames == {"f1.yaml", "f2.yaml", "out.yaml"}

\* is_yaml, local to parse_args; an input is a string or a parser
StrInp(s) == [kind |-> "str", s |-> s, parser |-> EmptyParser]
ParserInp(p) == [kind |-> "parser", s |-> "", parser |-> p]
is_yaml(x) == x.kind = "str" /\ x.s \in YamlNames

\* bool(x) of an optional string
Truthy(x) == x # PyNone /\ x # PyStr("")

\* [inp for inp in inps if pred(inp)]
RECURSIVE FilterYaml(_)
FilterYaml(inps) ==
    IF inps = <<>> THEN <<>>
    ELSE (IF is_yaml(Head(inps)) THEN <<Head(inps)>> ELSE <<>>)
         \o FilterYaml(Tail(inps))

RECURSIVE FilterParsers(_)
FilterParsers(inps) ==
    IF inps = <<>> THEN <<>>
    ELSE (IF Head(inps).kind = "parser" THEN <<Head(inps)>> ELSE <<>>)
         \o FilterParsers(Tail(inps))

\* __init_from_yaml: the whole store becomes the content of the file
init_from_yaml(d, fs, yaml_fn) ==
    IF yaml_fn \notin DOMAIN fs
    THEN [err |-> "FileNotFoundError", d |-> d, loaded |-> <<>>]
    ELSE IF ConstructorError(fs[yaml_fn])
    THEN [err |-> "ConstructorError", d |-> d, loaded |-> <<>>]
    ELSE [err |-> "", d |-> yaml_load_file(fs[yaml_fn]), loaded |-> <<yaml_fn>>]

\* no_spec, local to __parse_cli_args
no_spec(argv, k) == ~InArgv(argv, Long(k)) /\ ~InArgv(argv, Short(k))

\* unknown pairs written with setdefault: a key already there is kept
RECURSIVE unknown_pairs_keep(_, _, _, _)
unknown_pairs_keep(d, unknown, i, seen_keys) ==
    IF i > Len(unknown) \div 2 THEN [err |-> "", d |-> d]
    ELSE LET key == unknown[2 * i - 1]
             val == unknown[2 * i]
         IN  IF ~StartsWithDashDash(key)
             THEN [err |-> "ValueError: Keys must start with --", d |-> d]
             ELSE IF key \in seen_keys
             THEN [err |-> "ValueError: Duplicate found", d |-> d]
             ELSE unknown_pairs_keep(
                      IF TrimmedKey(key) \in DOMAIN d THEN d
                      ELSE DictSet(d, TrimmedKey(key), yaml_load(TokStr(val))),
                      unknown, i + 1, seen_keys \cup {key})

\* unknown pairs without the seen_keys check: the last duplicate wins
RECURSIVE unknown_pairs_last_wins(_, _, _, _)
unknown_pairs_last_wins(d, unknown, i, seen_keys) ==
    IF i > Len(unknown) \div 2 THEN [err |-> "", d |-> d]
    ELSE LET key == unknown[2 * i - 1]
             val == unknown[2 * i]
         IN  IF ~StartsWithDashDash(key)
             THEN [err |-> "ValueError: Keys must start with --", d |-> d]
             ELSE unknown_pairs_last_wins(
                      DictSet(d, TrimmedKey(key), yaml_load(TokStr(val))),
                      unknown, i + 1, seen_keys)

\* the loop of __update_with_unknown_cli_args, from pair i on
RECURSIVE unknown_pairs(_, _, _, _)
unknown_pairs(d, unknown, i, seen_keys) ==
    IF i > Len(unknown) \div 2 THEN [err |-> "", d |-> d]
    ELSE LET key == unknown[2 * i - 1]
             val == unknown[2 * i]
         IN  IF ~StartsWithDashDash(key)
             THEN [err |-> "ValueError: Keys must start with --", d |-> d]
             ELSE IF key \in seen_keys
             THEN [err |-> "ValueError: Duplicate found", d |-> d]
             ELSE unknown_pairs(DictSet(d, TrimmedKey(key), yaml_load(TokStr(val))),
                                unknown, i + 1, seen_keys \cup {key})

update_with_unknown_cli_args(d, unknown) ==
    IF Len(unknown) % 2 # 0
    THEN [err |-> "ValueError: Require even number of unknown arguments", d |-> d]
    ELSE unknown_pairs(d, unknown, 1, {})

\* the loop "Update with parsed args" of __parse_cli_args
update_with_parsed_args(d, argv, ns) ==
    LET skipped(k) == no_spec(argv, k) /\ k \in DOMAIN d
        written == {k \in DOMAIN ns : ~skipped(k)}
    IN  [k \in (DOMAIN d) \cup written |->
            IF k \in written
            THEN (IF ns[k].t = "str" THEN yaml_load(ns[k].v) ELSE ns[k])
            ELSE d[k]]

parse_cli_args(d, argv, parser) ==
    LET r == parse_known_args(parser, argv) IN
    IF r.err # "" THEN [err |-> r.err, d |-> d]
    ELSE update_with_unknown_cli_args(update_with_parsed_args(d, argv, r.ns),
                                      r.unknown)

\* parse_args without its guard
store_not_empty_unchecked(d) == FALSE

\* the guard of parse_args: len(self._privatedict) != 0
store_not_empty(d) == Cardinality(DOMAIN d) # 0

\* the file passed by the program preferred to the one after --config
yaml_source_program_first(maybe_yaml, cli_yaml) ==
    IF Truthy(maybe_yaml) THEN maybe_yaml
    ELSE IF Truthy(cli_yaml) THEN cli_yaml
    ELSE PyNone

\* the branches "init from yaml" of parse_args: which file is loaded, given
\* the one passed by the program and the one after --config (None: no file)
yaml_source(maybe_yaml, cli_yaml) ==
    IF Truthy(maybe_yaml) /\ ~Truthy(cli_yaml) THEN maybe_yaml
    ELSE IF ~Truthy(maybe_yaml) /\ Truthy(cli_yaml) THEN cli_yaml
    ELSE IF Truthy(maybe_yaml) /\ Truthy(cli_yaml) THEN cli_yaml
    ELSE PyNone

\* the warning of parse_args, logged when both are given and differ
yaml_warning(maybe_yaml, cli_yaml) ==
    IF Truthy(maybe_yaml) /\ Truthy(cli_yaml) /\ maybe_yaml # cli_yaml
    THEN <<[given |-> maybe_yaml.v, used |-> cli_yaml.v]>>
    ELSE <<>>

\* the yaml file and the parser that parse_args picks out of its inputs
maybe_yaml_of(xs) ==
    IF Len(FilterYaml(xs)) # 0 THEN PyStr(FilterYaml(xs)[1].s) ELSE PyNone
maybe_parser_of(xs) ==
    IF Len(FilterParsers(xs)) # 0 THEN FilterParsers(xs)[1].parser ELSE EmptyParser

\* the file named after the first --config of sys.argv, None without one
cli_yaml_of(av) ==
    IF InArgv(av, Long("config"))
    THEN PyStr(TokStr(av[IndexOf(av, Long("config")) + 1]))
    ELSE PyNone

\* WriteOnceDict.parse_args(*inps) on a store holding d, with the files fs
\* and sys.argv = argv: what it raises, the store content it leaves, the
\* files it opened and the warnings it logged
parse_args(d, fs, av, xs) ==
    LET fail(e) == [err |-> e, d |-> d, loaded |-> <<>>, warned |-> <<>>]
        maybe_yaml == maybe_yaml_of(xs)
        cli_yaml == cli_yaml_of(av)
        src == yaml_source(maybe_yaml, cli_yaml)
        warned == yaml_warning(maybe_yaml, cli_yaml)
        y == IF src # PyNone THEN init_from_yaml(d, fs, src.v)
             ELSE [err |-> "", d |-> d, loaded |-> <<>>]
        c == parse_cli_args(y.d, av, maybe_parser_of(xs))
    IN  IF store_not_empty(d)
        THEN fail("ValueError: Expected empty hackerargs")
        ELSE IF Len(FilterYaml(xs)) > 1
        THEN fail("ValueError: Must provide zero or one yaml files")
        ELSE IF Len(FilterParsers(xs)) > 1
        THEN fail("ValueError: Must provide zero or one ArgumentParsers")
        ELSE IF InArgv(av, Long("config"))
                /\ IndexOf(av, Long("config")) + 1 > Len(av)
        THEN fail("IndexError")
        ELSE IF y.err # ""
        THEN [err |-> y.err, d |-> d, loaded |-> <<>>, warned |-> warned]
        ELSE [err |-> c.err, d |-> c.d, loaded |-> y.loaded, warned |-> warned]

(***************************************************************************)
(* Bounds and the inputs the operations are called with                    *)
(***************************************************************************)
\* longest sys.argv (without the script name)
MaxArgv == 4

F1 == "f1.yaml"
F2 == "f2.yaml"
OutPath == "out.yaml"

\* the YAML files on disk when the program starts
InitFiles ==
    [f \in {F1, F2} |->
        IF f = F1
        THEN [k \in {"default", "alpha"} |->
                 IF k = "default" THEN Plain("yaml") ELSE Plain("9")]
        ELSE [k \in {"positional", "int"} |->
                 IF k = "positional" THEN Plain("yes") ELSE Plain("42")]]

Tokens ==
    {Long("default"), LongEq("default", "42"), Short("default"),
     Long("alpha"), Long("config"), Word("42"), Word(F1), Word(F2)}

RECURSIVE SeqsUpTo(_, _)
SeqsUpTo(S, n) ==
    IF n = 0 THEN {<<>>}
    ELSE LET shorter == SeqsUpTo(S, n - 1)
         IN  shorter \cup {Append(q, x) : q \in {r \in shorter : Len(r) = n - 1}, x \in S}

Argvs == SeqsUpTo(Tokens, MaxArgv)

\* parser.add_argument('--default', default = dflt)
OptParser(dflt) == MkParser([k \in {"default"} |-> dflt], <<>>)
\* parser.add_argument('positional', default = 'default')
PosParser == MkParser(EmptyDict, <<"positional">>)
Parsers == {OptParser(PyStr("42")), OptParser(PyNone), PosParser}

InpsSet ==
    {<<>>}
    \cup {<<StrInp(f)>> : f \in {F1, F2}}
    \cup {<<ParserInp(p)>> : p \in Parsers}
    \cup {<<ParserInp(p), StrInp(f)>> : p \in Parsers, f \in {F1, F2}}
    \cup {<<StrInp(F1), StrInp(F2)>>,
          <<ParserInp(PosParser), ParserInp(OptParser(PyNone))>>}

\* the command lines and call arguments of the programs that go on to use
\* the store after the merge
StoreArgvs == {<<>>, <<Long("alpha"), Word("42")>>, <<Long("config"), Word(F1)>>}
StoreInps == {<<>>, <<StrInp(F1)>>, <<ParserInp(OptParser(PyStr("42")))>>}

\* keys and values of the stores that are saved and loaded again: every
\* scalar type, and strings that read as another type when left unquoted
RtKeys == {"alpha", "default"}
RtVals == {PyInt("42"), PyFloat("3.14"), PyBool("True"), PyNone,
           PyStr("42"), PyStr("yes"), PyStr("cli"),
           PyList(<<PyFloat("3.14"), PyList(<<PyStr("yes"), PyStr("42")>>)>>),
           PyDict([k \in {"lr"} |-> PyStr("42")]),
           PyTuple(<<PyFloat("3.14"), PyInt("42")>>),
           PyList(<<PyTuple(<<PyInt("42")>>)>>)}

\* keys and values the program reads and writes after the merge
OpKeys == {"default", "alpha"}
OpVals == {PyInt("42"), PyStr("cli")}

(***************************************************************************)
(* The store as a state machine                                            *)
(***************************************************************************)
VARIABLES
    privatedict,  \* self._privatedict
    attrs,        \* the other instance attributes of the store object
    files,        \* the file system: path -> YAML document
    argv,         \* sys.argv[1:]
    inps,         \* the arguments the program gives to parse_args
    last,         \* the last call: what it was given, returned and raised
    hist,         \* history: the store content at the last save_to_yaml, and
                  \* whether this store object was filled from that file
    calls,        \* the setdefault calls of concurrent threads: for each
                  \* thread, where it is in the method and what it has seen
    gargs,        \* the GlobalWriteOnceDict object "args": _privatedict,
                  \* _got_args, _updated_with_cli
    ghist         \* history: how many calls of init_from_yaml and of
                  \* parse_cli_args on gargs have completed without error

vars == <<privatedict, attrs, files, argv, inps, last, hist, calls, gargs, ghist>>

Call(op, key, val, ret, err) ==
    [op |-> op, key |-> key, val |-> val, ret |-> ret, err |-> err,
     loaded |-> <<>>, warned |-> <<>>]

\* a program without threads
NoCalls == << >>

\* GlobalWriteOnceDict(): __init__ sets an empty dict and clears both flags
NewGlobalArgs ==
    [d |-> EmptyDict, got_args |-> FALSE, updated_with_cli |-> FALSE]
NoneCompleted == [inits |-> 0, clis |-> 0]

\* WriteOnceDict(): __init__ sets an empty _privatedict
NewStore ==
    /\ privatedict = EmptyDict
    /\ attrs = EmptyDict
    /\ files = InitFiles
    /\ last = Call("__init__", "", PyNone, PyNone, "")
    /\ hist = [saved |-> EmptyDict, restored |-> FALSE]
    /\ calls = NoCalls
    /\ gargs = NewGlobalArgs
    /\ ghist = NoneCompleted

Init ==
    /\ NewStore
    /\ argv \in StoreArgvs
    /\ inps \in StoreInps

MergeInit ==
    /\ NewStore
    /\ argv \in Argvs
    /\ inps \in InpsSet

\* args.parse_args(*inps)
ParseArgs ==
    LET r == parse_args(privatedict, files, argv, inps) IN
    /\ privatedict' = r.d
    /\ last' = [Call("parse_args", "", PyNone, PyNone, r.err) EXCEPT
                    !.loaded = r.loaded, !.warned = r.warned]
    /\ hist' = [hist EXCEPT !.restored = @ \/ (r.err = "" /\ r.loaded = <<OutPath>>)]
    /\ UNCHANGED <<attrs, files, argv, inps, calls, gargs, ghist>>

\* setdefault that stores the default over an existing value
SetDefault_overwrites ==
    \E key \in OpKeys, default_value \in OpVals :
        /\ privatedict' = DictSet(privatedict, key, default_value)
        /\ last' = Call("setdefault", key, default_value, privatedict'[key], "")
        /\ UNCHANGED <<attrs, files, argv, inps, hist, calls, gargs, ghist>>

\* args.setdefault(key, default_value), for a key and a value of the given sets
SetDefaultWith(keys, vals) ==
    \E key \in keys, default_value \in vals :
        /\ privatedict' = IF key \notin DOMAIN privatedict
                          THEN DictSet(privatedict, key, default_value)
                          ELSE privatedict
        /\ last' = Call("setdefault", key, default_value, privatedict'[key], "")
        /\ UNCHANGED <<attrs, files, argv, inps, hist, calls, gargs, ghist>>

SetDefault == SetDefaultWith(OpKeys, OpVals)

\* item assignment without the write-once check
SetItem_overwrites ==
    \E key \in OpKeys, value \in OpVals :
        /\ privatedict' = DictSet(privatedict, key, value)
        /\ last' = Call("__setitem__", key, value, PyNone, "")
        /\ UNCHANGED <<attrs, files, argv, inps, hist, calls, gargs, ghist>>

\* args[key] = value
SetItem ==
    \E key \in OpKeys, value \in OpVals :
        /\ IF key \in DOMAIN privatedict
           THEN /\ last' = Call("__setitem__", key, value, PyNone,
                                 "KeyError: Write-once only dict")
                /\ UNCHANGED privatedict
           ELSE /\ privatedict' = DictSet(privatedict, key, value)
                /\ last' = Call("__setitem__", key, value, PyNone, "")
        /\ UNCHANGED <<attrs, files, argv, inps, hist, calls, gargs, ghist>>

\* args.key = value: refused for a key of the store, otherwise an ordinary
\* instance attribute
SetAttr ==
    \E key \in OpKeys, value \in OpVals :
        /\ IF key \in DOMAIN privatedict
           THEN /\ last' = Call("__setattr__", key, value, PyNone,
                                 "KeyError: Attempting to set class variable")
                /\ UNCHANGED attrs
           ELSE /\ attrs' = DictSet(attrs, key, value)
                /\ last' = Call("__setattr__", key, value, PyNone, "")
        /\ UNCHANGED <<privatedict, files, argv, inps, hist, calls, gargs, ghist>>

\* deletion that removes the key
DelItem_deletes ==
    \E key \in OpKeys :
        /\ privatedict' = [x \in (DOMAIN privatedict) \ {key} |-> privatedict[x]]
        /\ last' = Call("__delitem__", key, PyNone, PyNone, "")
        /\ UNCHANGED <<attrs, files, argv, inps, hist, calls, gargs, ghist>>

\* deletion as a builtin dict does it: the key is removed when it is there,
\* KeyError when it is not
DelItem_pops ==
    \E key \in OpKeys :
        /\ privatedict' = [x \in (DOMAIN privatedict) \ {key} |-> privatedict[x]]
        /\ last' = Call("__delitem__", key, PyNone, PyNone,
                        IF key \in DOMAIN privatedict THEN "" ELSE "KeyError")
        /\ UNCHANGED <<attrs, files, argv, inps, hist, calls, gargs, ghist>>

\* del args[key]
DelItem ==
    \E key \in OpKeys :
        /\ last' = Call("__delitem__", key, PyNone, PyNone,
                        "KeyError: Cannot delete items in write-once only dict")
        /\ UNCHANGED <<privatedict, attrs, files, argv, inps, hist, calls, gargs, ghist>>

\* self._privatedict[key], shared by get, __getitem__ and __getattr__
Lookup(op, key) ==
    IF key \in DOMAIN privatedict
    THEN Call(op, key, PyNone, privatedict[key], "")
    ELSE Call(op, key, PyNone, PyNone, "KeyError")

\* args.get(key)
Get ==
    \E key \in OpKeys :
        /\ last' = Lookup("get", key)
        /\ UNCHANGED <<privatedict, attrs, files, argv, inps, hist, calls, gargs, ghist>>

\* args[key]
GetItem ==
    \E key \in OpKeys :
        /\ last' = Lookup("__getitem__", key)
        /\ UNCHANGED <<privatedict, attrs, files, argv, inps, hist, calls, gargs, ghist>>

\* args.key: an instance attribute is found first, __getattr__ is the fallback
GetAttr ==
    \E key \in OpKeys :
        /\ last' = IF key \in DOMAIN attrs
                   THEN Call("getattr", key, PyNone, attrs[key], "")
                   ELSE Lookup("getattr", key)
        /\ UNCHANGED <<privatedict, attrs, files, argv, inps, hist, calls, gargs, ghist>>

\* args.save_to_yaml(out_yaml_file)
SaveToYaml ==
    /\ files' = DictSet(files, OutPath, yaml_dump(privatedict))
    /\ last' = Call("save_to_yaml", OutPath, PyNone, PyNone, "")
    /\ hist' = [hist EXCEPT !.saved = privatedict]
    /\ UNCHANGED <<privatedict, attrs, argv, inps, calls, gargs, ghist>>

Next ==
    \/ ParseArgs
    \/ SetDefault
    \/ SetItem
    \/ SetAttr
    \/ DelItem
    \/ Get
    \/ GetItem
    \/ GetAttr
    \/ SaveToYaml

Spec == Init /\ [][Next]_vars

\* the merge alone: parse_args on a new store, and again on what it left
MergeSpec == MergeInit /\ [][ParseArgs]_vars

\* the number of threads that call setdefault at the same time
MaxThreads == 3
Threads == 1 .. MaxThreads

\* a thread about to call args.setdefault(key, default_value)
ThreadCall(key, default_value) ==
    [pc |-> "check", key |-> key, val |-> default_value,
     found |-> "", ret |-> PyNone]

\* one shared store, and in every thread one call of setdefault
ThreadInit ==
    /\ privatedict = EmptyDict
    /\ attrs = EmptyDict
    /\ files = InitFiles
    /\ argv = <<>>
    /\ inps = <<>>
    /\ last = Call("__init__", "", PyNone, PyNone, "")
    /\ hist = [saved |-> EmptyDict, restored |-> FALSE]
    /\ calls \in [Threads -> {ThreadCall(k, v) : k \in OpKeys, v \in OpVals}]
    /\ gargs = NewGlobalArgs
    /\ ghist = NoneCompleted

\* "if key not in self._privatedict": the test, in thread t
SetDefaultCheck(t) ==
    /\ calls[t].pc = "check"
    /\ calls' = [calls EXCEPT
                    ![t].found = IF calls[t].key \notin DOMAIN privatedict
                                 THEN "absent" ELSE "present",
                    ![t].pc = IF calls[t].key \notin DOMAIN privatedict
                              THEN "set" ELSE "return"]
    /\ UNCHANGED <<privatedict, attrs, files, argv, inps, last, hist, gargs, ghist>>

\* "self._privatedict[key] = default_value", in thread t
SetDefaultSet(t) ==
    /\ calls[t].pc = "set"
    /\ privatedict' = DictSet(privatedict, calls[t].key, calls[t].val)
    /\ calls' = [calls EXCEPT ![t].pc = "return"]
    /\ UNCHANGED <<attrs, files, argv, inps, last, hist, gargs, ghist>>

\* a return that hands back the caller's default
SetDefaultReturn_default(t) ==
    /\ calls[t].pc = "return"
    /\ calls' = [calls EXCEPT ![t].ret = calls[t].val, ![t].pc = "done"]
    /\ last' = Call("setdefault", calls[t].key, calls[t].val, calls[t].val, "")
    /\ UNCHANGED <<privatedict, attrs, files, argv, inps, hist, gargs, ghist>>

\* "return self._privatedict[key]", in thread t
SetDefaultReturn(t) ==
    /\ calls[t].pc = "return"
    /\ calls' = [calls EXCEPT ![t].ret = privatedict[calls[t].key],
                              ![t].pc = "done"]
    /\ last' = Call("setdefault", calls[t].key, calls[t].val,
                    privatedict[calls[t].key], "")
    /\ UNCHANGED <<privatedict, attrs, files, argv, inps, hist, gargs, ghist>>

\* the interpreter runs one step of one thread at a time, in any order
ThreadNext ==
    \E t \in DOMAIN calls :
        \/ SetDefaultCheck(t)
        \/ SetDefaultSet(t)
        \/ SetDefaultReturn(t)

ThreadSpec == ThreadInit /\ [][ThreadNext]_vars

(***************************************************************************)
(* GlobalWriteOnceDict, the earlier module-level store                     *)
(***************************************************************************)
\* yaml.load(f, Loader = yaml.FullLoader) of a flat mapping of scalars: the
\* resolver table is the unchanged one
yaml_full_load_file(doc) ==
    [k \in DOMAIN doc |->
        IF doc[k].style = "quoted" THEN PyStr(doc[k].text)
        ELSE construct(resolve(RegisteredResolvers, doc[k].text), doc[k].text)]

\* yaml.dump(self._privatedict, f) of the module-level store, whose module
\* does not import strict_bool_yaml
g_yaml_dump(d) == [k \in DOMAIN d |-> represent_with(RegisteredResolvers, d[k])]

\* infer_type: float(val) narrowed to int when it has no fraction, then
\* 'None', 'True', 'False', else the string
infer_type(val) ==
    IF val \in IntTexts THEN PyInt(val)
    ELSE IF val \in FloatTexts THEN PyFloat(val)
    ELSE IF val = "None" THEN PyNone
    ELSE IF val = "True" THEN PyBool("True")
    ELSE IF val = "False" THEN PyBool("False")
    ELSE PyStr(val)

\* type(val)(string), as argparse calls it for "type = type(val)": the
\* converted value, or err when the call raises TypeError or ValueError
type_call(t, string) ==
    CASE t = "str" -> [err |-> FALSE, v |-> PyStr(string)]
      [] t = "int" -> [err |-> string \notin IntTexts, v |-> PyInt(string)]
      [] t = "float" ->
            [err |-> string \notin (IntTexts \cup FloatTexts),
             v |-> PyFloat(IF string \in IntTexts THEN string \o ".0" ELSE string)]
      [] t = "bool" ->
            [err |-> FALSE, v |-> PyBool(IF string = "" THEN "False" ELSE "True")]
      [] OTHER -> [err |-> TRUE, v |-> PyNone]

\* __update_with_unknown_cli_args with __setfirst, from pair i on: every
\* check is an assert, and the pairs before a failing one stay written
RECURSIVE g_update_with_unknown_cli_args(_, _, _)
g_update_with_unknown_cli_args(d, unknown, i) ==
    IF Len(unknown) % 2 # 0
    THEN [err |-> "AssertionError: Require even num. of unknown arg terms", d |-> d]
    ELSE IF i > Len(unknown) \div 2 THEN [err |-> "", d |-> d]
    ELSE LET key == unknown[2 * i - 1]
             val == unknown[2 * i]
         IN  IF ~StartsWithDashDash(key)
             THEN [err |-> "AssertionError", d |-> d]
             ELSE IF TrimmedKey(key) \in DOMAIN d
             THEN [err |-> "AssertionError: Cannot overwrite", d |-> d]
             ELSE g_update_with_unknown_cli_args(
                      DictSet(d, TrimmedKey(key), infer_type(TokStr(val))),
                      unknown, i + 1)

\* the optional parser argument of parse_cli_args
NoParser == [given |-> FALSE, parser |-> EmptyParser]
GivenParser(p) == [given |-> TRUE, parser |-> p]

\* an init_from_yaml that refuses only after the command line was parsed
\* and puts the file content in place of whatever the store holds
g_init_from_yaml_reloads(g, fs, av, yaml_file) ==
    LET has_config == InArgv(av, Long("config"))
        at == IndexOf(av, Long("config")) + 1
        yaml_fn == IF has_config THEN TokStr(av[at]) ELSE yaml_file
    IN  IF g.updated_with_cli
        THEN [err |-> "Exception: Can only init from yaml once", g |-> g]
        ELSE IF has_config /\ at > Len(av)
        THEN [err |-> "IndexError", g |-> g]
        ELSE IF yaml_fn \notin DOMAIN fs
        THEN [err |-> "FileNotFoundError", g |-> g]
        ELSE [err |-> "",
              g |-> [g EXCEPT !.d = yaml_full_load_file(fs[yaml_fn]),
                              !.got_args = TRUE]]

\* GlobalWriteOnceDict.init_from_yaml(yaml_file) on the object g
g_init_from_yaml(g, fs, av, yaml_file) ==
    LET has_config == InArgv(av, Long("config"))
        at == IndexOf(av, Long("config")) + 1
        yaml_fn == IF has_config THEN TokStr(av[at]) ELSE yaml_file
    IN  IF g.got_args \/ g.updated_with_cli
        THEN [err |-> "Exception: Can only init from yaml once", g |-> g]
        ELSE IF has_config /\ at > Len(av)
        THEN [err |-> "IndexError", g |-> g]
        ELSE IF yaml_fn \notin DOMAIN fs
        THEN [err |-> "FileNotFoundError", g |-> g]
        ELSE IF g.d # EmptyDict
        THEN [err |-> "AssertionError: Expected empty internal args", g |-> g]
        ELSE [err |-> "",
              g |-> [g EXCEPT !.d = yaml_full_load_file(fs[yaml_fn]),
                              !.got_args = TRUE]]

\* GlobalWriteOnceDict.parse_cli_args(parser) on the object g, for parsers
\* without positionals: "--{arg}" is added for every key of the store
\* (argparse refuses an option string that is already there), the parsed
\* values are converted with type(val), the namespace is written over the
\* store, then the unknown pairs are added; the flag is set last
g_parse_cli_args(g, av, parser) ==
    LET base == IF parser.given THEN parser.parser.opts
                ELSE [k \in {"config"} |-> PyNone]
        opts == [k \in (DOMAIN base) \cup (DOMAIN g.d) |->
                    IF k \in DOMAIN g.d THEN g.d[k] ELSE base[k]]
        r == parse_known_args(MkParser(opts, <<>>), av)
        given == {k \in DOMAIN g.d : r.ns[k] # g.d[k]}
        typed == [k \in DOMAIN r.ns |->
                     IF k \in given THEN type_call(g.d[k].t, r.ns[k].v).v
                     ELSE r.ns[k]]
        u == g_update_with_unknown_cli_args(typed, r.unknown, 1)
    IN  IF g.updated_with_cli
        THEN [err |-> "Exception: Attempted to update args from CLI more than once",
              g |-> g]
        ELSE IF (DOMAIN base) \cap (DOMAIN g.d) # {}
        THEN [err |-> "ArgumentError", g |-> g]
        ELSE IF r.err # "" \/ \E k \in given : type_call(g.d[k].t, r.ns[k].v).err
        THEN [err |-> "SystemExit", g |-> g]
        ELSE IF u.err # ""
        THEN [err |-> u.err, g |-> [g EXCEPT !.d = u.d]]
        ELSE [err |-> "", g |-> [g EXCEPT !.d = u.d, !.updated_with_cli = TRUE]]

\* the command lines of the programs that use the module-level store
GlobalArgvs == SeqsUpTo(Tokens, 2)
\* the files given to init_from_yaml; the last one does not exist
GlobalYamls == {F1, F2, "none.yaml"}
GlobalParsers == {NoParser, GivenParser(OptParser(PyStr("42")))}
\* the files save_to_yaml writes: one that exists, and the missing one
GlobalOutPaths == {F1, "none.yaml"}

GlobalInit ==
    /\ NewStore
    /\ argv \in GlobalArgvs
    /\ inps = <<>>

\* args.init_from_yaml(yaml_file)
GInitFromYaml ==
    \E yaml_file \in GlobalYamls :
        LET r == g_init_from_yaml(gargs, files, argv, yaml_file) IN
        /\ gargs' = r.g
        /\ ghist' = [ghist EXCEPT !.inits = IF r.err = "" THEN @ + 1 ELSE @]
        /\ last' = Call("init_from_yaml", yaml_file, PyNone, PyNone, r.err)
        /\ UNCHANGED <<privatedict, attrs, files, argv, inps, hist, calls>>

\* args.parse_cli_args(parser)
GParseCliArgs ==
    \E parser \in GlobalParsers :
        LET r == g_parse_cli_args(gargs, argv, parser) IN
        /\ gargs' = r.g
        /\ ghist' = [ghist EXCEPT !.clis = IF r.err = "" THEN @ + 1 ELSE @]
        /\ last' = Call("parse_cli_args", IF parser.given THEN "parser" ELSE "",
                        PyNone, PyNone, r.err)
        /\ UNCHANGED <<privatedict, attrs, files, argv, inps, hist, calls>>

\* args.setdefault(key, default_value) on the module-level store
GSetDefault ==
    \E key \in OpKeys, default_value \in OpVals :
        /\ gargs' = [gargs EXCEPT
                        !.d = IF key \notin DOMAIN gargs.d
                              THEN DictSet(gargs.d, key, default_value)
                              ELSE gargs.d]
        /\ last' = Call("setdefault", key, default_value, gargs'.d[key], "")
        /\ UNCHANGED <<privatedict, attrs, files, argv, inps, hist, calls, ghist>>

\* args.save_to_yaml(out_yaml_file) on the module-level store
GSaveToYaml ==
    \E out_yaml_file \in GlobalOutPaths :
        /\ files' = DictSet(files, out_yaml_file, g_yaml_dump(gargs.d))
        /\ last' = Call("save_to_yaml", out_yaml_file, PyNone, PyNone, "")
        /\ UNCHANGED <<privatedict, attrs, argv, inps, hist, calls, gargs, ghist>>

GlobalNext ==
    \/ GInitFromYaml
    \/ GParseCliArgs
    \/ GSetDefault
    \/ GSaveToYaml

GlobalSpec == GlobalInit /\ [][GlobalNext]_vars

\* raw string tokens whose inferred type is of interest
InferTexts ==
    {"42", "3.14", "True", "False", "None", "hello",
     "yes", "Yes", "YES", "yEs", "no", "No", "NO", "nO",
     "on", "On", "ON", "oN", "off", "Off", "OFF", "oFf"}

\* a YAML file "alpha: <tok>"
InferDoc(tok) == [k \in {"alpha"} |-> Plain(tok)]

\* one raw token reaching a new store by one of the three ways parse_args
\* infers types: a scalar of the YAML file, the value of an unknown
\* "--alpha" pair, the string value of the declared "--default"
InferInit ==
    /\ privatedict = EmptyDict
    /\ attrs = EmptyDict
    /\ last = Call("__init__", "", PyNone, PyNone, "")
    /\ hist = [saved |-> EmptyDict, restored |-> FALSE]
    /\ calls = NoCalls
    /\ gargs = NewGlobalArgs
    /\ ghist = NoneCompleted
    /\ \E tok \in InferTexts :
          \/ /\ files = [f \in {F1} |-> InferDoc(tok)]
             /\ argv = <<>>
             /\ inps = <<StrInp(F1)>>
          \/ /\ files = InitFiles
             /\ argv = <<Long("alpha"), Word(tok)>>
             /\ inps = <<>>
          \/ /\ files = InitFiles
             /\ argv = <<Long("default"), Word(tok)>>
             /\ inps = <<ParserInp(OptParser(PyNone))>>

InferSpec == InferInit /\ [][ParseArgs]_vars

\* a later run of the program: a new WriteOnceDict() in a process that finds
\* the files the earlier run left
NewArgs ==
    /\ privatedict' = EmptyDict
    /\ attrs' = EmptyDict
    /\ last' = Call("__init__", "", PyNone, PyNone, "")
    /\ hist' = [hist EXCEPT !.restored = FALSE]
    /\ UNCHANGED <<files, argv, inps, calls, gargs, ghist>>

\* reproducibility: a program that calls parse_args(out.yaml) with no
\* command-line arguments, fills its store with setdefault and saves it to
\* out.yaml, run again and again
RoundTripInit ==
    /\ NewStore
    /\ argv = <<>>
    /\ inps = <<StrInp(OutPath)>>

RoundTripNext ==
    \/ ParseArgs
    \/ SetDefaultWith(RtKeys, RtVals)
    \/ SaveToYaml
    \/ NewArgs

RoundTripSpec == RoundTripInit /\ [][RoundTripNext]_vars

(***************************************************************************)
(* Properties                                                              *)
(***************************************************************************)
\* the operations a program performs on the store after it is populated
PostOps == {"setdefault", "__setitem__", "__setattr__", "__delitem__", "get",
            "save_to_yaml"}

\* C1: no operation performed after population replaces the value of a key
\* that is in the store, or removes the key: setdefault, item assignment,
\* attribute assignment, deletion, get and save_to_yaml leave every existing
\* entry as it is (they can only add a key that was absent).
C1_WriteOnce ==
    [][last'.op \in PostOps =>
          \A k \in DOMAIN privatedict :
              k \in DOMAIN privatedict' /\ privatedict'[k] = privatedict[k]]_vars

\* a deletion was attempted on a key of the store, and the key is still there
C1_Witness ==
    /\ last.op = "__delitem__"
    /\ last.key \in DOMAIN privatedict

\* C2: setdefault(k, v) on a store without k stores v under k, returns v and
\* changes no other key; on a store with k it returns the value k already
\* has and leaves the whole store unchanged (so a second setdefault with a
\* different value returns the first value).
C2_SetDefault ==
    [][last'.op = "setdefault" =>
          IF last'.key \in DOMAIN privatedict
          THEN /\ privatedict' = privatedict
               /\ last'.ret = privatedict[last'.key]
               /\ last'.err = ""
          ELSE /\ privatedict' = DictSet(privatedict, last'.key, last'.val)
               /\ last'.ret = last'.val
               /\ last'.err = ""]_vars

\* setdefault was called with a value other than the one the key holds, and
\* returned the value the key holds
C2_Witness ==
    /\ last.op = "setdefault"
    /\ last.ret # last.val
    /\ last.key \in DOMAIN privatedict
    /\ privatedict[last.key] = last.ret

\* what the parser handed to parse_args makes of sys.argv
TheParser == maybe_parser_of(inps)
Parsed == parse_known_args(TheParser, argv).ns
Residual == parse_known_args(TheParser, argv).unknown

\* parse_args returned normally
Merged == last.op = "parse_args" /\ last.err = ""

\* the flag --k is on the command line, as "--k value" or as "--k=value"
PassedFlag(k) == \E i \in 1..Len(argv) : argv[i].dash = 2 /\ argv[i].name = k

\* the YAML file that parse_args loaded, as a dict ({} when it loaded none)
LoadedYaml ==
    IF last.loaded = <<>> THEN EmptyDict ELSE yaml_load_file(files[last.loaded[1]])

\* C3: after parse_args, every declared optional flag that the user passed
\* on the command line holds the type-inferred command-line value, whether
\* or not the YAML file defines the flag and whatever the parser's default.
C3_ExplicitFlagWins ==
    Merged =>
        \A k \in DOMAIN TheParser.opts :
            PassedFlag(k) =>
                /\ k \in DOMAIN privatedict
                /\ privatedict[k] = yaml_load(Parsed[k].v)

\* the typed value a parser default is stored as
TypedDefault(val) == IF val.t = "str" THEN yaml_load(val.v) ELSE val

\* C4: after parse_args, every declared optional flag that the user did not
\* pass holds the value the loaded YAML file gives it when the file defines
\* it, and the parser's default (as a typed value) otherwise.
C4_YamlThenDefault ==
    Merged =>
        \A k \in DOMAIN TheParser.opts :
            ~PassedFlag(k) =>
                /\ k \in DOMAIN privatedict
                /\ privatedict[k] = IF k \in DOMAIN LoadedYaml THEN LoadedYaml[k]
                                    ELSE TypedDefault(TheParser.opts[k])

\* parse_args got as far as choosing the YAML file
ChoseYaml ==
    /\ last.op = "parse_args"
    /\ last.err \notin {"ValueError: Expected empty hackerargs",
                        "ValueError: Must provide zero or one yaml files",
                        "ValueError: Must provide zero or one ArgumentParsers",
                        "IndexError"}

\* the file the claim expects: the one after --config, else the program's
ExpectedYaml ==
    IF cli_yaml_of(argv) # PyNone THEN cli_yaml_of(argv) ELSE maybe_yaml_of(inps)

\* the keys the command line alone gives to the store
CliKeys ==
    (DOMAIN Parsed) \cup {TrimmedKey(Residual[2 * i - 1]) : i \in 1..(Len(Residual) \div 2)}

\* C5: parse_args loads exactly one YAML file: the one named after --config
\* when there is one (with a warning exactly when the program passed a
\* different file), else the one the program passed; with neither it loads
\* no file and the store holds only keys from the command line.
C5_OneYamlSource ==
    ChoseYaml =>
        /\ IF ExpectedYaml = PyNone THEN last.loaded = <<>>
           ELSE IF ExpectedYaml.v \in DOMAIN files THEN last.loaded = <<ExpectedYaml.v>>
           ELSE last.loaded = <<>> /\ last.err = "FileNotFoundError"
        /\ (last.warned # <<>>) <=>
               /\ maybe_yaml_of(inps) # PyNone
               /\ cli_yaml_of(argv) # PyNone
               /\ maybe_yaml_of(inps) # cli_yaml_of(argv)
        /\ (ExpectedYaml = PyNone /\ last.err = "") =>
               DOMAIN privatedict \subseteq CliKeys

\* the program passed f1.yaml, --config names f2.yaml: f2.yaml was loaded,
\* its keys are in the store and a warning was logged
C5_Witness ==
    /\ Merged
    /\ maybe_yaml_of(inps) = PyStr(F1)
    /\ cli_yaml_of(argv) = PyStr(F2)
    /\ last.loaded = <<F2>>
    /\ last.warned = <<[given |-> F1, used |-> F2]>>
    /\ "int" \in DOMAIN privatedict
    /\ "alpha" \notin DOMAIN privatedict

\* C6: after parse_args, every "--key value" pair of the residual argument
\* vector is in the store as key -> type-inferred value, whether or not the
\* loaded YAML file defines the key.
C6_UnknownPairs ==
    Merged =>
        \A i \in 1..(Len(Residual) \div 2) :
            /\ TrimmedKey(Residual[2 * i - 1]) \in DOMAIN privatedict
            /\ privatedict[TrimmedKey(Residual[2 * i - 1])]
                   = yaml_load(TokStr(Residual[2 * i]))

\* f1.yaml sets alpha to 9 and was loaded; the unknown pair --alpha 42 set
\* alpha to the integer 42
C6_Witness ==
    /\ Merged
    /\ last.loaded = <<F1>>
    /\ "alpha" \in DOMAIN LoadedYaml
    /\ Residual = <<Long("alpha"), Word("42")>>
    /\ privatedict["alpha"] = PyInt("42")

\* C7: after parse_args, every positional argument of the parser holds the
\* (type-inferred) value given on the command line, with or without a YAML
\* file and whatever keys the file has.
C7_PositionalFromCli ==
    Merged =>
        \A j \in 1..Len(TheParser.pos) :
            /\ TheParser.pos[j] \in DOMAIN privatedict
            /\ privatedict[TheParser.pos[j]] = yaml_load(Parsed[TheParser.pos[j]].v)

\* C8: parse_args on a store that holds a key raises an error, reads no
\* source and leaves the store unchanged.
C8_ParseOnlyWhenEmpty ==
    [][(last'.op = "parse_args" /\ privatedict # EmptyDict) =>
          /\ last'.err # ""
          /\ last'.loaded = <<>>
          /\ privatedict' = privatedict]_vars

\* the program passes f1.yaml, but set a key before it called parse_args:
\* the call failed and nothing of f1.yaml is in the store
C8_Witness ==
    /\ last.op = "parse_args"
    /\ last.err = "ValueError: Expected empty hackerargs"
    /\ inps = <<StrInp(F1)>>
    /\ privatedict # EmptyDict
    /\ "default" \notin DOMAIN privatedict

\* an odd number of tokens, a key position without "--", or a repeated key
Malformed(unknown) ==
    \/ Len(unknown) % 2 # 0
    \/ \E i \in 1..(Len(unknown) \div 2) : ~StartsWithDashDash(unknown[2 * i - 1])
    \/ \E i, j \in 1..(Len(unknown) \div 2) :
           i < j /\ unknown[2 * i - 1] = unknown[2 * j - 1]

\* C9: parse_args raises an error whenever the residual argument vector is
\* malformed (odd count, bad key prefix, duplicate key).
C9_MalformedRejected ==
    (last.op = "parse_args" /\ Malformed(Residual)) => last.err # ""

\* the same unknown key twice, in well-formed pairs: rejected as a duplicate
C9_Witness ==
    /\ last.op = "parse_args"
    /\ Len(Residual) = 4
    /\ Residual[1] = Residual[3]
    /\ last.err = "ValueError: Duplicate found"

\* C10: args[k] = v raises an error and leaves the store unchanged when k
\* is in the store, and stores v under k when it is not.
C10_SetItemOnce ==
    [][last'.op = "__setitem__" =>
          IF last'.key \in DOMAIN privatedict
          THEN last'.err # "" /\ privatedict' = privatedict
          ELSE last'.err = "" /\ privatedict' = DictSet(privatedict, last'.key, last'.val)]_vars

\* an assignment of another value to a key of the store failed, and the key
\* holds its old value
C10_Witness ==
    /\ last.op = "__setitem__"
    /\ last.err # ""
    /\ last.key \in DOMAIN privatedict
    /\ privatedict[last.key] # last.val

\* C11: del args[k] raises an error for every key, in the store or not, and
\* leaves the store (and everything else) unchanged.
C11_DeleteAlwaysFails ==
    [][last'.op = "__delitem__" =>
          /\ last'.err # ""
          /\ privatedict' = privatedict
          /\ attrs' = attrs
          /\ files' = files]_vars

\* a deletion of a key that a populated store does not have was refused
C11_Witness ==
    /\ last.op = "__delitem__"
    /\ last.err # ""
    /\ privatedict # EmptyDict
    /\ last.key \notin DOMAIN privatedict

\* a value of the types YAML has itself: a scalar, or a list or a dict of
\* such values
RECURSIVE YamlNative(_)
YamlNative(val) ==
    CASE val.t \in {"NoneType", "bool", "int", "float", "str"} -> TRUE
      [] val.t \in {"list", "dict"} -> \A i \in DOMAIN val.v : YamlNative(val.v[i])
      [] OTHER -> FALSE

SavedNative == \A k \in DOMAIN hist.saved : YamlNative(hist.saved[k])

\* C12 as claimed: for every store content, the store saved with
\* save_to_yaml and read back by parse_args(path) into an empty store, with
\* no command-line arguments, has the keys and the typed values that were
\* saved; from then on setdefault returns the saved value for every saved
\* key, whatever default it is given.
C12_RoundTripAny ==
    /\ (/\ last.op = "parse_args"
        /\ OutPath \in DOMAIN files
        /\ last.err # "ValueError: Expected empty hackerargs") =>
           (last.err = "" /\ privatedict = hist.saved)
    /\ (hist.restored /\ last.op = "setdefault" /\ last.key \in DOMAIN hist.saved) =>
           last.ret = hist.saved[last.key]

\* C12 as amended: the round trip holds for every store whose values are
\* YAML-native (scalars, lists and dicts of them, nested); when the saved
\* store held a tuple, parse_args raises ConstructorError and the new store
\* stays empty.
C12_RoundTrip ==
    /\ (/\ last.op = "parse_args"
        /\ OutPath \in DOMAIN files
        /\ last.err # "ValueError: Expected empty hackerargs") =>
           IF SavedNative
           THEN last.err = "" /\ last.loaded = <<OutPath>> /\ privatedict = hist.saved
           ELSE last.err = "ConstructorError" /\ privatedict = EmptyDict
    /\ (hist.restored /\ last.op = "setdefault" /\ last.key \in DOMAIN hist.saved) =>
           last.ret = hist.saved[last.key]

\* the saved store held the string "42" and a nested list; the store read
\* back holds them, and setdefault with another default returned the
\* string "42"
C12_Witness ==
    /\ hist.restored
    /\ hist.saved = [k \in RtKeys |->
                        IF k = "alpha" THEN PyStr("42")
                        ELSE PyList(<<PyFloat("3.14"),
                                      PyList(<<PyStr("yes"), PyStr("42")>>)>>)]
    /\ privatedict = hist.saved
    /\ last.op = "setdefault"
    /\ last.key = "alpha"
    /\ last.val = PyInt("42")
    /\ last.ret = PyStr("42")

\* the typed value the claim gives for a raw token
ClaimedType(tok) ==
    CASE tok = "42" -> PyInt("42")
      [] tok = "3.14" -> PyFloat("3.14")
      [] tok = "True" -> PyBool("True")
      [] tok = "False" -> PyBool("False")
      [] tok = "None" -> PyNone
      [] OTHER -> PyStr(tok)

\* C13: type inference gives "42" -> int, "3.14" -> float, "True"/"False" ->
\* bool, "None" -> null, yes/no/on/off in any case and "hello" -> the same
\* string, and gives the same for a YAML scalar, an unknown CLI value and a
\* declared flag's string value.
C13_TypeInference ==
    last.op = "parse_args" =>
        \A tok \in InferTexts :
            /\ (inps = <<StrInp(F1)>> /\ files[F1] = InferDoc(tok)) =>
                   privatedict = [k \in {"alpha"} |-> ClaimedType(tok)]
            /\ argv = <<Long("alpha"), Word(tok)>> =>
                   privatedict = [k \in {"alpha"} |-> ClaimedType(tok)]
            /\ argv = <<Long("default"), Word(tok)>> =>
                   privatedict = [k \in {"default"} |-> ClaimedType(tok)]

\* C14: in every state reached by parse_args, setdefault, item assignment
\* and attribute assignment, for every key k of the store, args.k returns
\* the value that args[k] and args.get(k) return.
C14_AttrAgreesWithItem ==
    /\ (last.op = "getattr" /\ last.key \in DOMAIN privatedict) =>
           (last.err = "" /\ last.ret = privatedict[last.key])
    /\ (last.op \in {"get", "__getitem__"} /\ last.key \in DOMAIN privatedict) =>
           (last.err = "" /\ last.ret = privatedict[last.key])

\* no two threads have both found the same key absent
OneFoundAbsent ==
    \A t1, t2 \in DOMAIN calls :
        (t1 # t2 /\ calls[t1].key = calls[t2].key) =>
            ~(calls[t1].found = "absent" /\ calls[t2].found = "absent")

\* in this step no stored value changes
ValuesStay ==
    \A k \in DOMAIN privatedict :
        k \in DOMAIN privatedict' /\ privatedict'[k] = privatedict[k]

\* every finished call has returned the value now stored for its key
ReturnedStored ==
    \A t \in DOMAIN calls :
        calls[t].pc = "done" => calls[t].ret = privatedict[calls[t].key]

\* C15 as claimed: with threads calling setdefault on one absent key, under
\* every interleaving of the check and set steps the stored value never
\* changes once written and every call returns that first-written value.
C15_FirstWriterWins ==
    [][ValuesStay /\ ReturnedStored']_vars

\* C15 as amended: the same holds as long as no second thread has found the
\* key absent, that is, when no other thread's check ran between the first
\* writer's check and its set.
C15_FirstWriterWinsExclusive ==
    [][OneFoundAbsent' => (ValuesStay /\ ReturnedStored')]_vars

\* all threads called setdefault on "alpha", thread 1 with 42 and thread 2
\* with "cli"; only thread 1 found the key absent, all calls are finished
\* and all returned 42
C15_Witness ==
    /\ OneFoundAbsent
    /\ \A t \in DOMAIN calls :
           calls[t].pc = "done" /\ calls[t].key = "alpha" /\ calls[t].ret = PyInt("42")
    /\ calls[1].found = "absent"
    /\ calls[1].val = PyInt("42")
    /\ calls[2].found = "present"
    /\ calls[2].val = PyStr("cli")

\* the errors parse_args raises by its own checks
ParseArgsErrors ==
    {"ValueError: Expected empty hackerargs",
     "ValueError: Must provide zero or one yaml files",
     "ValueError: Must provide zero or one ArgumentParsers",
     "ValueError: Require even number of unknown arguments",
     "ValueError: Keys must start with --",
     "ValueError: Duplicate found"}

\* C16: whenever parse_args raises one of its errors (non-empty store, more
\* than one YAML file or parser, odd count, bad key prefix or duplicate key
\* among the unknown arguments), the store holds exactly what it held
\* before the call.
C16_AllOrNothing ==
    [][(last'.op = "parse_args" /\ last'.err \in ParseArgsErrors) =>
           privatedict' = privatedict]_vars

\* C17: on the GlobalWriteOnceDict, init_from_yaml completes at most once
\* and never after parse_cli_args has completed, parse_cli_args completes
\* at most once, and every further call of either raises an error and
\* leaves the store unchanged.
C17_InitOnce ==
    [][/\ ghist'.inits <= 1
       /\ ghist'.clis <= 1
       /\ ghist.clis >= 1 => ghist'.inits = ghist.inits
       /\ (last'.op = "init_from_yaml" /\ (ghist.inits >= 1 \/ ghist.clis >= 1)) =>
              (last'.err # "" /\ gargs' = gargs)
       /\ (last'.op = "parse_cli_args" /\ ghist.clis >= 1) =>
              (last'.err # "" /\ gargs' = gargs)]_vars

\* init_from_yaml and then parse_cli_args have both completed, the store is
\* filled, and a further init_from_yaml has just raised
C17_Witness ==
    /\ ghist = [inits |-> 1, clis |-> 1]
    /\ gargs.d # EmptyDict
    /\ last.op = "init_from_yaml"
    /\ last.err = "Exception: Can only init from yaml once"

====
